---- MODULE Spec2Model ----
(***************************************************************************)
(* Central index server of the P2P file-sharing overlay (src/control.py,   *)
(* class ServerOperations).  The three hash tables are Python dicts; the   *)
(* values of hash_table_files and hash_table_peer_files are Python lists,  *)
(* modelled as sequences so that duplicates and positions are kept.        *)
(* The dispatcher (run) takes one connection at a time, submits the        *)
(* matching handler and waits for its result before it goes on, so one     *)
(* action below is one dispatched request: handler plus the response.      *)
(***************************************************************************)
EXTENDS Integers, Sequences, FiniteSets, TLC

VARIABLES
    hash_table_ports_peers,  \* dict: peer_port -> ip            (control.py:40)
    hash_table_files,        \* dict: file name -> list of peer ids (control.py:41)
    hash_table_peer_files,   \* dict: peer id -> list of file names (control.py:42)
    data_received,           \* request served last
    result,                  \* what the handler of that request returned
    sent,                    \* what was written on the connection
    before,                  \* history: the three tables before that request
    only_registers,          \* history: every request so far was a register
                             \*          of a Peer ID not registered before
    registered,              \* history: <<peer id, file list>> of those registers
    nOps,                    \* number of requests served
    accepted,                \* connections accepted so far, in order: the
                             \*   connection's number is its index here
    listener_queue,          \* the handoff queue (control.py:43), connection numbers
    pc,                      \* where the dispatcher thread (run) is
    conn,                    \* the connection the dispatcher holds
    pending,                 \* connections whose handler is submitted and not done
    invoked,                 \* history: handler runs per connection
    responses,               \* what was written on each connection
    closed                   \* connections closed by the dispatcher

tables == <<hash_table_ports_peers, hash_table_files, hash_table_peer_files>>

request_history == <<only_registers, registered, nOps>>

server_vars == <<accepted, listener_queue, pc, conn, pending, invoked, responses, closed>>

vars == <<hash_table_ports_peers, hash_table_files, hash_table_peer_files,
          data_received, result, sent, before, only_registers,
          registered, nOps, accepted, listener_queue, pc, conn, pending,
          invoked, responses, closed>>

----------------------------------------------------------------------------
(* Bounds and input domains *)

\* requests served in a behaviour of Spec, and of SpecSets
MaxOps == 3
MaxOpsSets == 4

IPs == {"1.2.3.4", "5.6.7.8"}
Ports == {9000}
HostingPorts == {9000, 9001}
ClientPorts == {50000}
Files == {"a.txt", "b.txt"}
FileNames == Files \cup {"c.txt"}
Tasks == {"add", "rm", "touch"}

RECURSIVE SeqsUpTo(_, _)
SeqsUpTo(S, n) ==
    IF n = 0 THEN {<<>>}
    ELSE LET shorter == SeqsUpTo(S, n - 1)
         IN  shorter \cup {Append(s, x) : s \in shorter, x \in S}

\* every file list a request may carry, repeated names included, as long as
\* there are file names
FileLists == SeqsUpTo(Files, Cardinality(Files))

\* the file lists a peer sends that lists each of its files once
FileSets == {files \in FileLists : \A i, j \in 1..Len(files) : files[i] = files[j] => i = j}
\* (ip, port) of the accepted connection
Addrs == {<<ip, port>> : ip \in IPs, port \in ClientPorts}

----------------------------------------------------------------------------
(* Python dict and list primitives *)

EmptyDict == [k \in {} |-> <<>>]

DictSet(d, k, v) == [x \in DOMAIN d \cup {k} |-> IF x = k THEN v ELSE d[x]]

DictPop(d, k) == [x \in DOMAIN d \ {k} |-> d[x]]

Range(lst) == {lst[i] : i \in 1..Len(lst)}

\* list.remove(x): deletes the first occurrence of x (x is in lst)
ListRemove(lst, x) ==
    LET i == CHOOSE j \in 1..Len(lst) :
                 lst[j] = x /\ \A k \in 1..(j - 1) : lst[k] # x
    IN  SubSeq(lst, 1, i - 1) \o SubSeq(lst, i + 1, Len(lst))

----------------------------------------------------------------------------
(* Operation handlers.  self is the record of the three tables; a handler  *)
(* that mutates them yields [self |-> the tables afterwards, ret |-> its   *)
(* return value].  An exception raised inside the try block leaves the     *)
(* mutations made so far in place and returns False.                       *)

Tables(ports, files, peers) == [ports |-> ports, files |-> files, peers |-> peers]

self_now == Tables(hash_table_ports_peers, hash_table_files, hash_table_peer_files)

\* mutant: the separator is left out
PeerId_NoColon(ip, peer_port) == ip \o ToString(peer_port)

\* peer_id = addr[0] + ":" + str(peer_port)
PeerId(ip, peer_port) == ip \o ":" \o ToString(peer_port)

PeerIds == {PeerId(ip, p) : ip \in IPs, p \in Ports}

\* if f in hash_table_files: append, else: create
add_peer_id(files_tbl, f, peer_id) ==
    IF f \in DOMAIN files_tbl
    THEN DictSet(files_tbl, f, Append(files_tbl[f], peer_id))
    ELSE DictSet(files_tbl, f, <<peer_id>>)

RECURSIVE registry_loop(_, _, _, _)
registry_loop(files_tbl, files, peer_id, i) ==
    IF i > Len(files) THEN files_tbl
    ELSE registry_loop(add_peer_id(files_tbl, files[i], peer_id), files, peer_id, i + 1)

\* registry writing a fresh peers table instead of adding to the one it has
registry_Replace(self, a, files, peer_port) ==
    LET peer_id == PeerId(a[1], peer_port)
    IN  [self |-> Tables(DictSet(self.ports, peer_port, a[1]),
                         registry_loop(self.files, files, peer_id, 1),
                         DictSet(EmptyDict, peer_id, files)),
         ret  |-> TRUE]

registry(self, a, files, peer_port) ==
    LET peer_id == PeerId(a[1], peer_port)
    IN  [self |-> Tables(DictSet(self.ports, peer_port, a[1]),
                         registry_loop(self.files, files, peer_id, 1),
                         DictSet(self.peers, peer_id, files)),
         ret  |-> TRUE]

\* for peer_id in hash_table_files[f]: if peer_id == wanted: remove; pop when empty.
\* The list is mutated while it is iterated: Python's list iterator goes by
\* index, so after a removal the element that moved into position i is skipped.
RECURSIVE remove_loop(_, _, _, _)
remove_loop(lst, peer_id, i, popped) ==
    IF i > Len(lst) THEN [lst |-> lst, popped |-> popped]
    ELSE IF lst[i] = peer_id
         THEN LET shorter == ListRemove(lst, peer_id)
              IN  remove_loop(shorter, peer_id, i + 1, popped \/ Len(shorter) = 0)
         ELSE remove_loop(lst, peer_id, i + 1, popped)

\* mutant: the emptied list is left under its key
remove_peer_id_NoPop(files_tbl, f, peer_id) ==
    IF f \notin DOMAIN files_tbl THEN files_tbl
    ELSE DictSet(files_tbl, f, remove_loop(files_tbl[f], peer_id, 1, FALSE).lst)

remove_peer_id(files_tbl, f, peer_id) ==
    IF f \notin DOMAIN files_tbl THEN files_tbl
    ELSE LET r == remove_loop(files_tbl[f], peer_id, 1, FALSE)
         IN  IF r.popped THEN DictPop(files_tbl, f)
             ELSE DictSet(files_tbl, f, r.lst)

RECURSIVE update_add(_, _, _, _)
update_add(self, peer_id, files, i) ==
    IF i > Len(files) THEN [self |-> self, ret |-> TRUE]
    ELSE IF peer_id \notin DOMAIN self.peers
         THEN [self |-> self, ret |-> FALSE]                      \* KeyError
         ELSE update_add(
                  Tables(self.ports,
                         add_peer_id(self.files, files[i], peer_id),
                         DictSet(self.peers, peer_id, Append(self.peers[peer_id], files[i]))),
                  peer_id, files, i + 1)

RECURSIVE update_rm(_, _, _, _)
update_rm(self, peer_id, files, i) ==
    IF i > Len(files) THEN [self |-> self, ret |-> TRUE]
    ELSE IF peer_id \notin DOMAIN self.peers
         THEN [self |-> self, ret |-> FALSE]                      \* KeyError
         ELSE IF files[i] \notin Range(self.peers[peer_id])
         THEN [self |-> self, ret |-> FALSE]                      \* ValueError
         ELSE update_rm(
                  Tables(self.ports,
                         remove_peer_id(self.files, files[i], peer_id),
                         DictSet(self.peers, peer_id, ListRemove(self.peers[peer_id], files[i]))),
                  peer_id, files, i + 1)

\* update reporting success whatever its loops met
update_AlwaysTrue(self, peer_update) ==
    LET r == IF peer_update.task = "add"
             THEN update_add(self, peer_update.peer_id, peer_update.files, 1)
             ELSE IF peer_update.task = "rm"
             THEN update_rm(self, peer_update.peer_id, peer_update.files, 1)
             ELSE [self |-> self, ret |-> TRUE]
    IN  [self |-> r.self, ret |-> TRUE]

update(self, peer_update) ==
    IF peer_update.task = "add" THEN update_add(self, peer_update.peer_id, peer_update.files, 1)
    ELSE IF peer_update.task = "rm" THEN update_rm(self, peer_update.peer_id, peer_update.files, 1)
    ELSE [self |-> self, ret |-> TRUE]

\* mutant: the keys of the wrong table
list_files_index_server_PeerKeys(self) == DOMAIN self.peers

list_files_index_server(self) == DOMAIN self.files

search(self, file_name) ==
    IF file_name \in DOMAIN self.files THEN self.files[file_name] ELSE <<>>

RECURSIVE deregistry_loop(_, _, _, _)
deregistry_loop(files_tbl, files, peer_id, i) ==
    IF i > Len(files) THEN files_tbl
    ELSE deregistry_loop(remove_peer_id(files_tbl, files[i], peer_id), files, peer_id, i + 1)

deregistry(self, peer_data) ==
    [self |-> Tables(DictPop(self.ports, peer_data.hosting_port),
                     deregistry_loop(self.files, peer_data.files, peer_data.peer_id, 1),
                     DictPop(self.peers, peer_data.peer_id)),
     ret  |-> TRUE]

----------------------------------------------------------------------------
(* Requests (the decoded JSON objects) *)

NoRequest == [command |-> "none"]
RegisterRequest(files, peer_port) ==
    [command |-> "register", files |-> files, peer_port |-> peer_port]
UpdateRequest(peer_id, task, files) ==
    [command |-> "update", peer_id |-> peer_id, task |-> task, files |-> files]
ListRequest == [command |-> "list"]
SearchRequest(file_name) == [command |-> "search", file_name |-> file_name]
DeregisterRequest(peer_id, hosting_port, files) ==
    [command |-> "deregister", peer_id |-> peer_id,
     hosting_port |-> hosting_port, files |-> files]

----------------------------------------------------------------------------
(* The dispatcher serving one connection *)

Init ==
    /\ hash_table_ports_peers = EmptyDict
    /\ hash_table_files = EmptyDict
    /\ hash_table_peer_files = EmptyDict
    /\ data_received = NoRequest
    /\ result = FALSE
    /\ sent = FALSE
    /\ before = Tables(EmptyDict, EmptyDict, EmptyDict)
    /\ only_registers = TRUE
    /\ registered = {}
    /\ nOps = 0
    /\ accepted = <<>>
    /\ listener_queue = <<>>
    /\ pc = "poll"
    /\ conn = 0
    /\ pending = {}
    /\ invoked = <<>>
    /\ responses = <<>>
    /\ closed = {}

Serve(req, out, res, reply, limit) ==
    /\ nOps < limit
    /\ nOps' = nOps + 1
    /\ data_received' = req
    /\ before' = self_now
    /\ hash_table_ports_peers' = out.ports
    /\ hash_table_files' = out.files
    /\ hash_table_peer_files' = out.peers
    /\ result' = res
    /\ sent' = reply
    /\ UNCHANGED server_vars

Register(lists, limit) ==
    \E a \in Addrs, files \in lists, peer_port \in Ports :
        LET r == registry(self_now, a, files, peer_port)
            peer_id == PeerId(a[1], peer_port)
            fresh == only_registers /\ peer_id \notin {e[1] : e \in registered}
        IN  /\ Serve(RegisterRequest(files, peer_port), r.self, r.ret, <<a[1], r.ret>>, limit)
            /\ only_registers' = fresh
            /\ registered' = IF fresh THEN registered \cup {<<peer_id, files>>} ELSE {}

Update(lists, limit) ==
    \E peer_id \in PeerIds, task \in Tasks, files \in lists :
        LET req == UpdateRequest(peer_id, task, files)
            r == update(self_now, req)
        IN  /\ Serve(req, r.self, r.ret, r.ret, limit)
            /\ only_registers' = FALSE
            /\ registered' = {}

List(limit) ==
    LET file_list == list_files_index_server(self_now)
    IN  /\ Serve(ListRequest, self_now, file_list, file_list, limit)
        /\ only_registers' = FALSE
        /\ registered' = {}

\* mutant: the lookup creates the entry it does not find (a defaultdict)
Search_SetDefault(limit) ==
    \E file_name \in FileNames :
        LET peer_list == search(self_now, file_name)
            out == Tables(hash_table_ports_peers,
                          DictSet(hash_table_files, file_name, peer_list),
                          hash_table_peer_files)
        IN  /\ Serve(SearchRequest(file_name), out, peer_list, peer_list, limit)
            /\ only_registers' = FALSE
            /\ registered' = {}

Search(limit) ==
    \E file_name \in FileNames :
        LET peer_list == search(self_now, file_name)
        IN  /\ Serve(SearchRequest(file_name), self_now, peer_list, peer_list, limit)
            /\ only_registers' = FALSE
            /\ registered' = {}

Deregister(lists, limit) ==
    \E peer_id \in PeerIds, hosting_port \in HostingPorts, files \in lists :
        LET req == DeregisterRequest(peer_id, hosting_port, files)
            r == deregistry(self_now, req)
        IN  /\ Serve(req, r.self, r.ret, r.ret, limit)
            /\ only_registers' = FALSE
            /\ registered' = {}

\* any request, any file list
Next ==
    \/ Register(FileLists, MaxOps)
    \/ Update(FileLists, MaxOps)
    \/ List(MaxOps)
    \/ Search(MaxOps)
    \/ Deregister(FileLists, MaxOps)

Spec == Init /\ [][Next]_vars

\* the same server when every request lists each file name at most once;
\* the smaller input domain lets the behaviours be one request longer
NextSets ==
    \/ Register(FileSets, MaxOpsSets)
    \/ Update(FileSets, MaxOpsSets)
    \/ List(MaxOpsSets)
    \/ Search(MaxOpsSets)
    \/ Deregister(FileSets, MaxOpsSets)

SpecSets == Init /\ [][NextSets]_vars

----------------------------------------------------------------------------
(* The server: the listener thread (server_listener) and the dispatcher    *)
(* thread (run) with its worker pool, one step per blocking call.          *)
(* A connection is [addr, bytes, request]: bytes tells what the client     *)
(* sends, "json" (the request decodes to a JSON object with every field    *)
(* the dispatcher reads), "malformed" (no JSON, or a field is missing:     *)
(* json.loads or a subscript raises inside run) or "nothing" (the client   *)
(* sends nothing and keeps the connection open: recv does not return).     *)

\* connections accepted in a behaviour
MaxConns == 3

\* ThreadPoolExecutor(max_workers=8)
max_workers == 8

Commands == {"register", "update", "list", "search", "deregister"}

UnknownRequest == [command |-> "ping"]

\* the requests of the server's clients: a few of each command, the handlers
\* themselves being explored by Spec and SpecSets
RegisterRequests ==
    {RegisterRequest(files, peer_port) : files \in {<<"a.txt">>, <<"b.txt">>}, peer_port \in Ports}

OtherRequests ==
    {UpdateRequest(peer_id, task, <<"b.txt">>) : peer_id \in PeerIds, task \in {"add", "rm"}}
    \cup {ListRequest, SearchRequest("a.txt"), UnknownRequest}
    \cup {DeregisterRequest(peer_id, peer_port, <<"a.txt">>) : peer_id \in PeerIds, peer_port \in Ports}

\* the dispatcher reads the address of a connection for register alone
\* (control.py:193-200), so the other connections come from one client
OtherClient == CHOOSE a \in Addrs : a[1] = "1.2.3.4"

Connections ==
    {[addr |-> a, bytes |-> "json", request |-> req] : a \in Addrs, req \in RegisterRequests}
    \cup {[addr |-> OtherClient, bytes |-> "json", request |-> req] : req \in OtherRequests}
    \cup {[addr |-> OtherClient, bytes |-> b, request |-> NoRequest] :
              b \in {"malformed", "nothing"}}

\* the handler the dispatcher submits for a request, applied to the tables
Handle(self, a, req) ==
    IF req.command = "register" THEN registry(self, a, req.files, req.peer_port)
    ELSE IF req.command = "update" THEN update(self, req)
    ELSE IF req.command = "list" THEN [self |-> self, ret |-> list_files_index_server(self)]
    ELSE IF req.command = "search" THEN [self |-> self, ret |-> search(self, req.file_name)]
    ELSE deregistry(self, req)

\* the response the dispatcher serialises
Reply(a, req, res) == IF req.command = "register" THEN <<a[1], res>> ELSE res

\* a listener whose put waits for room in a queue of one
Accept_Bounded ==
    /\ pc # "exited"
    /\ Len(accepted) < MaxConns
    /\ Len(listener_queue) < 1
    /\ \E c \in Connections :
           /\ accepted' = Append(accepted, c)
           /\ listener_queue' = Append(listener_queue, Len(accepted) + 1)
           /\ invoked' = Append(invoked, 0)
           /\ responses' = Append(responses, <<>>)
    /\ UNCHANGED <<tables, data_received, result, sent, before, request_history,
                   pc, conn, pending, closed>>

\* server_listener: conn, addr = accept(); listener_queue.put((conn, addr)).
\* The listener is a daemon thread: it ends with the process, which ends when
\* the dispatcher thread does.
Accept ==
    /\ pc # "exited"
    /\ Len(accepted) < MaxConns
    /\ \E c \in Connections :
           /\ accepted' = Append(accepted, c)
           /\ listener_queue' = Append(listener_queue, Len(accepted) + 1)
           /\ invoked' = Append(invoked, 0)
           /\ responses' = Append(responses, <<>>)
    /\ UNCHANGED <<tables, data_received, result, sent, before, request_history,
                   pc, conn, pending, closed>>

\* a dispatcher taking the connection queued last
Dequeue_LIFO ==
    /\ pc = "poll"
    /\ listener_queue # <<>>
    /\ conn' = listener_queue[Len(listener_queue)]
    /\ listener_queue' = SubSeq(listener_queue, 1, Len(listener_queue) - 1)
    /\ pc' = "recv"
    /\ UNCHANGED <<tables, data_received, result, sent, before, request_history,
                   accepted, pending, invoked, responses, closed>>

\* while not listener_queue.empty(): ... conn, addr = listener_queue.get()
Dequeue ==
    /\ pc = "poll"
    /\ listener_queue # <<>>
    /\ conn' = Head(listener_queue)
    /\ listener_queue' = Tail(listener_queue)
    /\ pc' = "recv"
    /\ UNCHANGED <<tables, data_received, result, sent, before, request_history,
                   accepted, pending, invoked, responses, closed>>

\* data_received = json.loads(conn.recv(1024).decode('utf-8'))
Recv ==
    /\ pc = "recv"
    /\ accepted[conn].bytes = "json"
    /\ data_received' = accepted[conn].request
    /\ pc' = "dispatch"
    /\ UNCHANGED <<tables, result, sent, before, request_history,
                   accepted, listener_queue, conn, pending, invoked, responses, closed>>

\* the same line raising: except Exception ... sys.exit(1) ends the thread
RecvFault ==
    /\ pc = "recv"
    /\ accepted[conn].bytes = "malformed"
    /\ pc' = "exited"
    /\ UNCHANGED <<tables, data_received, result, sent, before, request_history,
                   accepted, listener_queue, conn, pending, invoked, responses, closed>>

\* fut = executor.submit(handler, ...)
Submit ==
    /\ pc = "dispatch"
    /\ data_received.command \in Commands
    /\ Cardinality(pending) < max_workers
    /\ pending' = pending \cup {conn}
    /\ pc' = "wait"
    /\ UNCHANGED <<tables, data_received, result, sent, before, request_history,
                   accepted, listener_queue, conn, invoked, responses, closed>>

\* no branch of the if/elif chain matches the command
NoBranch ==
    /\ pc = "dispatch"
    /\ data_received.command \notin Commands
    /\ pc' = "close"
    /\ UNCHANGED <<tables, data_received, result, sent, before, request_history,
                   accepted, listener_queue, conn, pending, invoked, responses, closed>>

\* a worker thread of the pool runs the submitted handler to its return
HandlerRun ==
    \E c \in pending :
        LET r == Handle(self_now, accepted[c].addr, accepted[c].request)
        IN  /\ before' = self_now
            /\ hash_table_ports_peers' = r.self.ports
            /\ hash_table_files' = r.self.files
            /\ hash_table_peer_files' = r.self.peers
            /\ result' = r.ret
            /\ invoked' = [invoked EXCEPT ![c] = @ + 1]
            /\ pending' = pending \ {c}
            /\ UNCHANGED <<data_received, sent, request_history,
                           accepted, listener_queue, pc, conn, responses, closed>>

\* a dispatcher that does not wait for the handler's result
Wait_NoBlock ==
    /\ pc = "wait"
    /\ pc' = "send"
    /\ UNCHANGED <<tables, data_received, result, sent, before, request_history,
                   accepted, listener_queue, conn, pending, invoked, responses, closed>>

\* success = fut.result(timeout=None)
Wait ==
    /\ pc = "wait"
    /\ conn \notin pending
    /\ pc' = "send"
    /\ UNCHANGED <<tables, data_received, result, sent, before, request_history,
                   accepted, listener_queue, conn, pending, invoked, responses, closed>>

\* conn.send(json.dumps(...).encode('utf-8'))
Send ==
    /\ pc = "send"
    /\ LET reply == Reply(accepted[conn].addr, data_received, result)
       IN  /\ sent' = reply
           /\ responses' = [responses EXCEPT ![conn] = Append(@, reply)]
    /\ pc' = "close"
    /\ UNCHANGED <<tables, data_received, result, before, request_history,
                   accepted, listener_queue, conn, pending, invoked, closed>>

\* conn.close(), then back to the test of the queue
Close ==
    /\ pc = "close"
    /\ closed' = closed \cup {conn}
    /\ pc' = "poll"
    /\ UNCHANGED <<tables, data_received, result, sent, before, request_history,
                   accepted, listener_queue, conn, pending, invoked, responses>>

Dispatcher == Dequeue \/ Recv \/ RecvFault \/ Submit \/ NoBranch \/ Wait \/ Send \/ Close

NextServer ==
    \/ Accept
    \/ Dequeue
    \/ Recv
    \/ RecvFault
    \/ Submit
    \/ NoBranch
    \/ HandlerRun
    \/ Wait
    \/ Send
    \/ Close

SpecServer == Init /\ [][NextServer]_vars

\* the threads are scheduled: a step of the dispatcher or of the pool's worker
\* that stays possible is taken (each of them changes pc or pending)
SpecServerFair ==
    SpecServer /\ WF_<<pc, pending>>(Dispatcher) /\ WF_<<pc, pending>>(HandlerRun)

----------------------------------------------------------------------------
(* The spec's view of the tables: sets of files per peer, peers per file *)

FilesOf(p) ==
    IF p \in DOMAIN hash_table_peer_files THEN Range(hash_table_peer_files[p]) ELSE {}

PeersOf(f) ==
    IF f \in DOMAIN hash_table_files THEN Range(hash_table_files[f]) ELSE {}

KnownPeers == DOMAIN hash_table_peer_files \cup UNION {PeersOf(f) : f \in DOMAIN hash_table_files}

KnownFiles == DOMAIN hash_table_files \cup UNION {FilesOf(p) : p \in DOMAIN hash_table_peer_files}

NoDuplicates(lst) == \A i, j \in 1..Len(lst) : lst[i] = lst[j] => i = j

EmptyTables == Tables(EmptyDict, EmptyDict, EmptyDict)

\* the port a Peer ID "<ip>:<port>" was registered with
PortOfPeerId(p) == CHOOSE port \in Ports : \E ip \in IPs : p = ip \o ":" \o ToString(port)

\* a request was served in this step
Served == nOps' = nOps + 1

----------------------------------------------------------------------------
(* Claims *)

\* C1: in every reachable state, for every Peer ID p and file f,
\* f is in peerToFiles[p] iff p is in fileToPeers[f] (also after a
\* re-registration with another file list and after a deregister whose file
\* list differs from the peer's files).  The code breaks it.
C1_MapsConsistent ==
    \A p \in KnownPeers, f \in KnownFiles : f \in FilesOf(p) <=> p \in PeersOf(f)

\* C2: in every reachable state no key of fileToPeers maps to an empty list.
C2_NoEmptyPeerList ==
    \A f \in DOMAIN hash_table_files : Len(hash_table_files[f]) > 0

\* C2 witness: an update 'rm' has just removed the only peer hosting a file
\* and the file key is gone.
C2_Witness ==
    /\ data_received.command = "update"
    /\ data_received.task = "rm"
    /\ result = TRUE
    /\ \E f \in Range(data_received.files) :
           /\ f \in DOMAIN before.files
           /\ Range(before.files[f]) = {data_received.peer_id}
           /\ f \notin DOMAIN hash_table_files

\* C3: in every reachable state no key of peerToFiles maps to an empty list
\* (after register with an empty file list, after an 'rm' of the last file).
\* The code breaks it.
C3_NoEmptyFileList ==
    \A p \in DOMAIN hash_table_peer_files : Len(hash_table_peer_files[p]) > 0

\* C4: a deregister request served twice in a row succeeds both times and the
\* second leaves all three tables as the first left them.  The code breaks it.
C4_DeregisterIdempotent ==
    [][(/\ data_received.command = "deregister"
        /\ Served
        /\ data_received' = data_received)
       => (/\ result = TRUE
           /\ result' = TRUE
           /\ hash_table_ports_peers' = hash_table_ports_peers
           /\ hash_table_files' = hash_table_files
           /\ hash_table_peer_files' = hash_table_peer_files)]_vars

\* C5: after a deregister for Peer ID p (the request naming p and p's port),
\* p is in none of the three tables, whatever file list the request carried.
\* The code breaks it.
C5_DeregisterRemovesAll ==
    (/\ data_received.command = "deregister"
     /\ data_received.hosting_port = PortOfPeerId(data_received.peer_id)) =>
        LET p == data_received.peer_id
        IN  /\ p \notin DOMAIN hash_table_peer_files
            /\ PortOfPeerId(p) \notin DOMAIN hash_table_ports_peers
            /\ \A f \in DOMAIN hash_table_files : p \notin Range(hash_table_files[f])

\* C6: an update for a Peer ID that is no key of peerToFiles returns False and
\* leaves the three tables as they were, for every task and every file list.
\* The code breaks it (it returns True when it never touches the peer's entry).
C6_UnknownPeerUpdateRejected ==
    (/\ data_received.command = "update"
     /\ data_received.peer_id \notin DOMAIN before.peers)
    => (result = FALSE /\ self_now = before)

\* C7: update(p, add, F) followed at once by update(p, rm, F), for a registered
\* p, both succeed and restore peerToFiles[p] (as a set) and all of fileToPeers
\* to what they were before the add.  The code breaks it.
C7_AddRmRoundTrip ==
    [][(/\ data_received.command = "update"
        /\ data_received.task = "add"
        /\ data_received.peer_id \in DOMAIN before.peers
        /\ Served
        /\ data_received' = UpdateRequest(data_received.peer_id, "rm", data_received.files))
       => (/\ result = TRUE
           /\ result' = TRUE
           /\ data_received.peer_id \in DOMAIN hash_table_peer_files'
           /\ Range(hash_table_peer_files'[data_received.peer_id])
                 = Range(before.peers[data_received.peer_id])
           /\ hash_table_files' = before.files)]_vars

\* C8: after register(sourceAddress, peerPort, F) on the empty Index Store, F
\* without repeated names, a search(f) returns exactly
\* <<"<sourceAddress>:<peerPort>">> for f in F and <<>> for f not in F.
C8_RegisterThenSearch ==
    [][(/\ data_received.command = "register"
        /\ before = EmptyTables
        /\ NoDuplicates(data_received.files)
        /\ Served
        /\ data_received'.command = "search")
       => (/\ result' = IF data_received'.file_name \in Range(data_received.files)
                        THEN <<sent[1] \o ":" \o ToString(data_received.peer_port)>>
                        ELSE <<>>
           /\ sent' = result')]_vars

\* C8 witness: 1.2.3.4:9000 registered {a.txt, b.txt} on the empty store and
\* the search for a.txt that followed returned that one Peer ID.
C8_Witness ==
    /\ nOps = 2
    /\ data_received = SearchRequest("a.txt")
    /\ before.peers = DictSet(EmptyDict, "1.2.3.4:9000", <<"a.txt", "b.txt">>)
    /\ sent = <<"1.2.3.4:9000">>

\* C9: after only register requests of pairwise distinct Peer IDs, starting
\* from the empty store, list returns exactly the union of their file lists.
C9_ListIsUnion ==
    [][(/\ only_registers
        /\ Served
        /\ data_received'.command = "list")
       => (/\ result' = UNION {Range(e[2]) : e \in registered}
           /\ result' = DOMAIN hash_table_files
           /\ sent' = result')]_vars

\* C9 witness: two distinct peers registered different files, then list
\* returned both files.
C9_Witness ==
    /\ nOps = 3
    /\ data_received.command = "list"
    /\ Cardinality(DOMAIN hash_table_peer_files) = 2
    /\ \E p, q \in DOMAIN hash_table_peer_files :
           /\ Range(hash_table_peer_files[p]) = {"a.txt"}
           /\ Range(hash_table_peer_files[q]) = {"b.txt"}
    /\ sent = {"a.txt", "b.txt"}

\* C10: in every reachable state no Peer ID occurs twice in fileToPeers[f]
\* (also after the same peer registers f twice, or adds f while hosting it).
\* The code breaks it.
C10_PeerListsAreSets ==
    \A f \in DOMAIN hash_table_files : NoDuplicates(hash_table_files[f])

\* C20: search and list are read-only: serving search(fileName), for a name
\* that is a key or not, or list leaves the three tables unchanged, and
\* search returns the list under the key, the empty sequence when there is
\* no such key.
C20_SearchListReadOnly ==
    [][(/\ Served
        /\ data_received'.command \in {"search", "list"})
       => (/\ hash_table_ports_peers' = hash_table_ports_peers
           /\ hash_table_files' = hash_table_files
           /\ hash_table_peer_files' = hash_table_peer_files
           /\ data_received'.command = "search" =>
                  /\ data_received'.file_name \in DOMAIN hash_table_files
                         => result' = hash_table_files[data_received'.file_name]
                  /\ data_received'.file_name \notin DOMAIN hash_table_files
                         => result' = <<>>
           /\ data_received'.command = "list" => result' = DOMAIN hash_table_files)]_vars

\* C20 witness: a search for a name that is no key was served on a store
\* that holds files; it returned the empty sequence and the store is as before.
C20_Witness ==
    /\ data_received.command = "search"
    /\ data_received.file_name \notin DOMAIN hash_table_files
    /\ hash_table_files # EmptyDict
    /\ result = <<>>
    /\ sent = <<>>
    /\ self_now = before
    /\ nOps >= 2


\* ---- the server's connections ----

ConnIds == 1..Len(accepted)

\* a connection carrying a request of one of the five commands
WellFormed(c) == accepted[c].bytes = "json" /\ accepted[c].request.command \in Commands

IsRegister(c) == accepted[c].bytes = "json" /\ accepted[c].request.command = "register"

PeerIdOf(c) == PeerId(accepted[c].addr[1], accepted[c].request.peer_port)

\* N register requests with pairwise distinct Peer IDs and pairwise disjoint
\* file lists, accepted in any interleaving with the dispatcher's steps
DisjointRegisters ==
    /\ ConnIds # {}
    /\ \A c \in ConnIds : IsRegister(c)
    /\ \A c, d \in ConnIds :
           c # d => /\ PeerIdOf(c) # PeerIdOf(d)
                    /\ Range(accepted[c].request.files)
                           \cap Range(accepted[d].request.files) = {}

\* C11: when N register requests with pairwise distinct Peer IDs and pairwise
\* disjoint file lists have all been completed, however their acceptance was
\* interleaved with the dispatcher, every one was answered with success, every
\* peer is registered with its files, every file lists its peer, and the
\* files map and the peers map agree.
C11_ConcurrentRegisters ==
    (DisjointRegisters /\ closed = ConnIds) =>
        /\ \A c \in ConnIds :
               /\ responses[c] = << <<accepted[c].addr[1], TRUE>> >>
               /\ PeerIdOf(c) \in DOMAIN hash_table_peer_files
               /\ hash_table_peer_files[PeerIdOf(c)] = accepted[c].request.files
               /\ \A f \in Range(accepted[c].request.files) :
                      /\ f \in DOMAIN hash_table_files
                      /\ PeerIdOf(c) \in Range(hash_table_files[f])
        /\ DOMAIN hash_table_peer_files = {PeerIdOf(c) : c \in ConnIds}
        /\ C1_MapsConsistent

\* two registers from two peers, the second accepted before the first was
\* answered, both completed
C11_Witness ==
    /\ DisjointRegisters
    /\ Len(accepted) = 2
    /\ closed = {1, 2}
    /\ Cardinality(DOMAIN hash_table_peer_files) = 2
    /\ Cardinality(DOMAIN hash_table_files) = 2

\* the handlers in flight: submitted to the pool and not yet returned
InFlight == pending

\* C12: in every reachable state at most one handler is in flight, which is
\* the handler of the connection the dispatcher holds and whose result it is
\* waiting for; the dispatcher is nowhere else in its loop while a handler
\* runs, and the number of handlers in flight never exceeds the pool's bound.
C12_MutualExclusion ==
    /\ Cardinality(InFlight) <= 1
    /\ Cardinality(InFlight) <= max_workers
    /\ InFlight # {} => /\ pc = "wait"
                        /\ InFlight = {conn}
                        /\ conn \notin closed
                        /\ \A c \in Range(listener_queue) : c > conn

\* a handler is in flight while another accepted connection waits in the queue
C12_Witness ==
    /\ pc = "wait"
    /\ InFlight = {conn}
    /\ listener_queue # <<>>
    /\ conn > 1
    /\ hash_table_peer_files # EmptyDict

\* C13: a connection whose request names a command outside the five is
\* answered (with a protocol-error response) before it is closed.
C13_UnknownCommandAnswered ==
    \A c \in closed :
        (accepted[c].bytes = "json" /\ accepted[c].request.command \notin Commands)
            => Len(responses[c]) >= 1

\* a connection on which the bytes read did not decode
DecodeFault(c) ==
    /\ accepted[c].bytes = "malformed"
    /\ c \notin Range(listener_queue)
    /\ ~(c = conn /\ pc = "recv")

\* C14: after a decode fault on a connection the dispatcher is still running
\* and no handler has been run for that connection, so the three maps are
\* what they were before it was read.
C14_DecodeFaultLocal ==
    \A c \in ConnIds :
        DecodeFault(c) => (pc # "exited" /\ invoked[c] = 0)

\* the handler of the connection the dispatcher holds has returned
HandlerDone == (pc = "wait" /\ conn \notin pending) \/ pc \in {"send", "close"}

\* the dispatcher holds an update 'rm' for a peer that was registered when the
\* handler started, naming a file that was not in that peer's list
RmFault ==
    /\ HandlerDone
    /\ data_received.command = "update"
    /\ data_received.task = "rm"
    /\ data_received.peer_id \in DOMAIN before.peers
    /\ \E f \in Range(data_received.files) :
           f \notin Range(before.peers[data_received.peer_id])

\* C15: an update 'rm' for a registered peer naming a file the peer does not
\* host makes the handler return failure; the dispatcher writes false on that
\* connection, closes it and goes back to polling the queue: no step from
\* such a state ends the dispatcher.
C15_OperationFaultSurvived ==
    [][RmFault =>
           /\ result = FALSE
           /\ invoked[conn] = 1
           /\ pc' # "exited"
           /\ pc = "close" => responses[conn] = <<FALSE>>
           /\ (pc = "close" /\ pc' # pc) => (pc' = "poll" /\ conn \in closed')]_vars

\* a peer registered a.txt, its update 'rm' of b.txt was answered false and
\* closed, and the dispatcher is reading the next connection
C15_Witness ==
    /\ Len(accepted) = 3
    /\ IsRegister(1)
    /\ accepted[1].request.files = <<"a.txt">>
    /\ accepted[2].request = UpdateRequest(PeerIdOf(1), "rm", <<"b.txt">>)
    /\ responses[2] = <<FALSE>>
    /\ closed = {1, 2}
    /\ pc = "recv"
    /\ conn = 3
    /\ hash_table_peer_files = DictSet(EmptyDict, PeerIdOf(1), <<"a.txt">>)

\* a well-formed connection has had its handler run at most once and at most
\* one response, the response only after the handler returned, and the close
\* only after the response
ServedOnce ==
    \A c \in ConnIds :
        WellFormed(c) =>
            /\ invoked[c] <= 1
            /\ Len(responses[c]) <= 1
            /\ Len(responses[c]) = 1 => (invoked[c] = 1 /\ c \notin pending)
            /\ c \in closed => Len(responses[c]) = 1

\* C16: every well-formed connection has its handler invoked exactly once and
\* exactly one response, written after the handler returned and before the
\* close; and, the threads being scheduled fairly, every accepted well-formed
\* connection is eventually closed.
C16_ServedExactlyOnce ==
    /\ []ServedOnce
    /\ \A c \in 1..MaxConns : (c \in ConnIds /\ WellFormed(c)) ~> (c \in closed)

\* the dispatcher is in the payload read of connection s, whose client sends
\* nothing
Stalled(s) == pc = "recv" /\ conn = s /\ accepted[conn].bytes = "nothing"

\* a response has been written on connection c
Answered(c) == c \in ConnIds /\ Len(responses[c]) = 1

\* C17: when the processing of one connection never completes, every other
\* well-formed connection, accepted before or after, is still eventually
\* answered.
C17_StallIsLocal ==
    \A s, c \in 1..MaxConns :
        (s # c) => (<>[]Stalled(s) =>
                        ((c \in ConnIds /\ WellFormed(c)) ~> Answered(c)))

\* the listener thread is running: it ends with the process only
AcceptorRunning == pc # "exited"

\* C18: in every reachable state in which the acceptor is running and has a
\* connection to accept, its accept-and-enqueue step is enabled, wherever the
\* dispatcher is in its loop and however many connections wait in the queue.
C18_AcceptorNeverBlocked ==
    (AcceptorRunning /\ Len(accepted) < MaxConns) => ENABLED Accept

\* connections were enqueued while the dispatcher waited for a handler: the
\* queue holds every connection accepted after the one being served
C18_Witness ==
    /\ pc = "wait"
    /\ conn = 1
    /\ pending = {1}
    /\ Len(listener_queue) = Len(accepted) - 1
    /\ Len(listener_queue) >= 2

\* the tables after the handlers of connections 1..k that were invoked have
\* been applied one after another, in acceptance order, to the empty tables
RECURSIVE Sequential(_)
Sequential(k) ==
    IF k = 0 THEN Tables(EmptyDict, EmptyDict, EmptyDict)
    ELSE IF invoked[k] > 0
         THEN Handle(Sequential(k - 1), accepted[k].addr, accepted[k].request).self
         ELSE Sequential(k - 1)

\* what the handler of connection c returns in that sequential run
SequentialReply(c) ==
    Reply(accepted[c].addr, accepted[c].request,
          Handle(Sequential(c - 1), accepted[c].addr, accepted[c].request).ret)

\* C19: the queue holds the connections not yet dequeued in acceptance order;
\* when the handler of a connection has started, every connection accepted
\* before it has had its handler completed and its response written and is
\* closed; and the tables, and every response written, are those of the
\* requests applied one after another in acceptance order.
C19_Fifo ==
    /\ \A i \in 1..Len(listener_queue) :
           listener_queue[i] = Len(accepted) - Len(listener_queue) + i
    /\ \A c1, c2 \in ConnIds :
           (c1 < c2 /\ (c2 \in pending \/ invoked[c2] > 0)) =>
               /\ c1 \in closed
               /\ c1 \notin pending
               /\ WellFormed(c1) => (invoked[c1] = 1 /\ Len(responses[c1]) = 1)
    /\ self_now = Sequential(Len(accepted))
    /\ \A c \in ConnIds :
           Len(responses[c]) = 1 => responses[c] = <<SequentialReply(c)>>

\* a register and the deregister of the same peer were both queued before the
\* dispatcher took either, then served: the tables are empty, as they are
\* only when the register is applied first
C19_Witness ==
    /\ Len(accepted) >= 2
    /\ IsRegister(1)
    /\ accepted[1].request.files = <<"a.txt">>
    /\ accepted[2].request
           = DeregisterRequest(PeerIdOf(1), accepted[1].request.peer_port, <<"a.txt">>)
    /\ responses[1] = << <<accepted[1].addr[1], TRUE>> >>
    /\ responses[2] = <<TRUE>>
    /\ closed = {1, 2}
    /\ self_now = Tables(EmptyDict, EmptyDict, EmptyDict)

====
